---- MODULE Spec2Model ----
(***************************************************************************)
(* A model of noahbreit/simple_hopfield: the HopfieldNetwork engine        *)
(* (hopfield.py) and the handlers of HopfieldGUI (gui.py) that own the     *)
(* pattern buffer handed to it.                                            *)
(*                                                                         *)
(* Conventions.                                                            *)
(*  - Arrays are sequences indexed from 1 (the source indexes from 0).     *)
(*  - self.weights is kept as a matrix of integer numerators over one      *)
(*    common positive denominator: `weights /= len(patterns)` sets the     *)
(*    denominator instead of dividing, and the sign of net_input and the   *)
(*    comparisons of energies are decided on integers.  The source works   *)
(*    in float64: its sums of numerators are exact, and so is the          *)
(*    quotient when the number of patterns is a power of two or the        *)
(*    engine has at most two neurons (each dot product then has one        *)
(*    non-zero term).  Elsewhere the model reads the quotient as the       *)
(*    exact rational: with three patterns on five neurons float64 can      *)
(*    turn a net_input of exactly 0 into a value of a few 1e-17, and an    *)
(*    energy into its neighbouring float.  The bounds below stay inside    *)
(*    the exact range.                                                     *)
(*  - self.patterns is a reference.  patterns_ref names the list object    *)
(*    it points to: the list made by __init__, the list a caller passed    *)
(*    to train and dropped, or the GUI's long-lived stored_patterns.       *)
(*  - call is the record of the call the caller made last and its          *)
(*    outcome, as the caller sees it; Idle once the caller has dropped it. *)
(***************************************************************************)
EXTENDS Integers, Sequences, FiniteSets, TLC

\* Bounds of the model.
MaxSize == 3
MaxPatterns == 2
MaxCells == 6
MaxIter == 2
MaxStored == 2
GridCells == 3
NoiseSize == 8

\* def recall(self, pattern, max_iterations=100)
DefaultMaxIterations == 100

VARIABLES size, weights, patterns_ref, own_list, stored_patterns,
          current_pattern, built_from, call

vars == <<size, weights, patterns_ref, own_list, stored_patterns,
          current_pattern, built_from, call>>

----------------------------------------------------------------------------
\* numpy helpers, as the engine uses them

\* np.zeros((size, size))
Zeros(n) == [i \in 1..n |-> [j \in 1..n |-> 0]]

\* np.zeros(64, dtype=int), for a grid of n cells
ZeroPattern(n) == [i \in 1..n |-> 0]

OnesPattern(n) == [i \in 1..n |-> 1]

\* the pattern taken as it is, 0 left as 0
BipolarNoConversion(pattern) == pattern

\* 2 * pattern - 1
Bipolar(pattern) == [i \in 1..Len(pattern) |-> 2 * pattern[i] - 1]

\* (state + 1) // 2
Binary(state) == [i \in 1..Len(state) |-> (state[i] + 1) \div 2]

\* np.outer(a, b)
Outer(a, b) == [i \in 1..Len(a) |-> [j \in 1..Len(b) |-> a[i] * b[j]]]

\* self.weights += outer: numpy broadcasts an m x m operand into the n x n
\* weights when m = n, or when m = 1 (the single entry is added everywhere);
\* any other m raises ValueError.
CanBroadcast(n, m) == m = n \/ m = 1

AddOuter(W, n, outer) ==
    [i \in 1..n |-> [j \in 1..n |->
        W[i][j] + (IF Len(outer) = n THEN outer[i][j] ELSE outer[1][1])]]

\* the diagonal left as summed
FillDiagonalSkipped(W, n) == W

\* np.fill_diagonal(self.weights, 0)
FillDiagonal(W, n) == [i \in 1..n |-> [j \in 1..n |-> IF i = j THEN 0 ELSE W[i][j]]]

\* np.dot(a, b) of two vectors: defined when the lengths agree, else ValueError
DotDefined(a, b) == Len(a) = Len(b)

RECURSIVE DotFrom(_, _, _)
DotFrom(a, b, k) == IF k > Len(a) THEN 0 ELSE a[k] * b[k] + DotFrom(a, b, k + 1)

Dot(a, b) == DotFrom(a, b, 1)

\* np.dot(W, v) of a matrix and a vector
MatVec(W, v) == [i \in 1..Len(W) |-> Dot(W[i], v)]

----------------------------------------------------------------------------
\* HopfieldNetwork.train

\* the loop `for pattern in patterns`, from the k-th pattern on: the weights
\* accumulated so far and whether np.outer's sum raised ValueError
RECURSIVE Accumulate(_, _, _, _)
Accumulate(W, n, P, k) ==
    IF k > Len(P) THEN [w |-> W, raised |-> FALSE]
    ELSE LET bipolar_pattern == Bipolar(P[k])
             outer == Outer(bipolar_pattern, bipolar_pattern)
         IN  IF CanBroadcast(n, Len(bipolar_pattern))
             THEN Accumulate(AddOuter(W, n, outer), n, P, k + 1)
             ELSE [w |-> W, raised |-> TRUE]

\* the weights train leaves behind, and whether it raised.  A raise leaves
\* the weights as accumulated so far: the diagonal is not cleared and
\* nothing is divided.
TrainResult(n, P) ==
    LET acc == Accumulate(Zeros(n), n, P, 1)
    IN  IF acc.raised
        THEN [num |-> acc.w, den |-> 1, raised |-> TRUE]
        ELSE [num |-> FillDiagonal(acc.w, n),
              den |-> IF Len(P) > 0 THEN Len(P) ELSE 1,
              raised |-> FALSE]

\* entry-by-entry equality of two weight matrices of the same shape
SameWeights(a, b) ==
    \A i \in 1..Len(a.num) : \A j \in 1..Len(a.num) :
        a.num[i][j] * b.den = b.num[i][j] * a.den

----------------------------------------------------------------------------
\* HopfieldNetwork.recall

\* a tie resolved to -1
ThresholdStrict(net_input) == IF net_input > 0 THEN 1 ELSE -1

\* the two branches exchanged
ThresholdSwapped(net_input) == IF net_input >= 0 THEN -1 ELSE 1

\* state[i] = 1 if net_input >= 0 else -1
Threshold(net_input) == IF net_input >= 0 THEN 1 ELSE -1

\* net_input = np.dot(self.weights[i], state), times the denominator
NetInput(W, i, state) == Dot(W.num[i], state)

\* `for i in range(self.size)`, from neuron i on: each neuron reads the
\* state as already updated by the neurons before it
RECURSIVE SweepFrom(_, _, _, _)
SweepFrom(W, n, state, i) ==
    IF i > n THEN state
    ELSE SweepFrom(W, n,
                   [state EXCEPT ![i] = Threshold(NetInput(W, i, state))],
                   i + 1)

Sweep(W, n, state) == SweepFrom(W, n, state, 1)

\* np.array_equal(state, prev_state)
Converged(state, prev_state) == state = prev_state

\* one pass too many
SweepLimitOffByOne(max_iterations) == max_iterations + 1

\* the number of passes of `for iteration in range(max_iterations)`
SweepLimit(max_iterations) == max_iterations

\* the loop over sweeps, from the given iteration on; sweeps counts the
\* sweeps performed
RECURSIVE RecallLoop(_, _, _, _, _, _)
RecallLoop(W, n, state, history, iteration, max_iterations) ==
    IF iteration >= SweepLimit(max_iterations)
    THEN [pattern |-> Binary(state), history |-> history, sweeps |-> iteration]
    ELSE LET prev_state == state
             new_state == Sweep(W, n, state)
             new_history == Append(history, Binary(new_state))
         IN  IF Converged(new_state, prev_state)
             THEN [pattern |-> Binary(new_state), history |-> new_history,
                   sweeps |-> iteration + 1]
             ELSE RecallLoop(W, n, new_state, new_history, iteration + 1,
                             max_iterations)

\* recall raises ValueError in np.dot of the first neuron of the first
\* sweep when the probe's length is not the size
RecallRaises(W, n, pattern, max_iterations) ==
    /\ SweepLimit(max_iterations) >= 1
    /\ n >= 1
    /\ ~DotDefined(W.num[1], Bipolar(pattern))

RecallResult(W, n, pattern, max_iterations) ==
    RecallLoop(W, n, Bipolar(pattern), <<pattern>>, 0, max_iterations)

----------------------------------------------------------------------------
\* HopfieldNetwork.energy

\* the sign of the energy lost
EnergyWrongSign(W, pattern) ==
    LET bipolar == Bipolar(pattern)
    IN  [num |-> Dot(bipolar, MatVec(W.num, bipolar)), den |-> 2 * W.den]

\* -0.5 * np.dot(bipolar, np.dot(self.weights, bipolar)), as the fraction
\* num / den with den > 0
Energy(W, pattern) ==
    LET bipolar == Bipolar(pattern)
    IN  [num |-> -Dot(bipolar, MatVec(W.num, bipolar)), den |-> 2 * W.den]

\* a <= b for two such fractions
EnergyLeq(a, b) == a.num * b.den <= b.num * a.den

EnergyLess(a, b) == a.num * b.den < b.num * a.den

----------------------------------------------------------------------------
\* The inputs the callers draw from

\* a pattern of n cells over {0, 1}
BinaryPatterns(n) == [1..n -> {0, 1}]

\* sequences of at most K elements of S
ListsUpTo(S, K) == UNION {[1..k -> S] : k \in 0..K}

\* The pattern lists of length-n patterns handed to train: every list
\* whose patterns hold at most MaxCells cells together.
WellFormedLists(n) == ListsUpTo(BinaryPatterns(n), MaxCells \div n)

\* patterns of every length from 1 to MaxSize
AnyLengthPatterns == UNION {BinaryPatterns(m) : m \in 1..MaxSize}

\* the patterns whose length is not n
MismatchedPatterns(n) == {p \in AnyLengthPatterns : Len(p) # n}

\* pattern lists holding at least one pattern whose length is not n
MismatchedLists(n) ==
    {P \in ListsUpTo(AnyLengthPatterns, MaxPatterns) :
        \E k \in 1..Len(P) : Len(P[k]) # n}

\* the values of max_iterations the callers pass
IterationBounds == (-1..MaxIter) \cup {DefaultMaxIterations}

\* the pattern with cell i toggled
Flip(p, i) == [p EXCEPT ![i] = 1 - p[i]]

OneBitFlips(p) == {Flip(p, i) : i \in 1..Len(p)}

----------------------------------------------------------------------------
\* State

\* self.patterns: the list the reference points to
patterns == IF patterns_ref = "stored_patterns" THEN stored_patterns ELSE own_list

Idle == [op |-> "none"]

\* HopfieldNetwork.__init__(size), and a caller that has made no call yet
Construct(n) ==
    /\ size = n
    /\ weights = [num |-> Zeros(n), den |-> 1]
    /\ patterns_ref = "init"
    /\ own_list = <<>>
    /\ built_from = <<>>
    /\ call = Idle

\* HopfieldGUI.__init__ has made no grid and no buffer
NoGUI ==
    /\ stored_patterns = <<>>
    /\ current_pattern = <<>>

Init == (\E n \in 1..MaxSize : Construct(n)) /\ NoGUI

----------------------------------------------------------------------------
\* Calls on the engine from a caller that passes its own arguments

\* train(P), P a list the caller made for the call: the reference to P is
\* kept, then the weights are rebuilt
Train(P) ==
    LET r == TrainResult(size, P)
        new_weights == [num |-> r.num, den |-> r.den]
    IN  /\ call = Idle
        /\ weights' = new_weights
        /\ patterns_ref' = "argument"
        /\ own_list' = P
        /\ built_from' = P
        /\ call' = [op |-> "train",
                    outcome |-> IF r.raised THEN "ValueError" ELSE "ok",
                    mismatched |-> \E k \in 1..Len(P) : Len(P[k]) # size,
                    mutated |-> ~SameWeights(weights, new_weights)]
        /\ UNCHANGED <<size, stored_patterns, current_pattern>>

\* recall(pattern, max_iterations): the engine is left as it was
Recall(pattern, max_iterations) ==
    /\ call = Idle
    /\ call' = IF RecallRaises(weights, size, pattern, max_iterations)
               THEN [op |-> "recall", pattern |-> pattern,
                     max_iterations |-> max_iterations,
                     outcome |-> "ValueError",
                     mismatched |-> Len(pattern) # size,
                     mutated |-> FALSE]
               ELSE [op |-> "recall", pattern |-> pattern,
                     max_iterations |-> max_iterations,
                     outcome |-> "ok",
                     mismatched |-> Len(pattern) # size,
                     mutated |-> FALSE,
                     result |-> RecallResult(weights, size, pattern,
                                             max_iterations)]
    /\ UNCHANGED <<size, weights, patterns_ref, own_list, built_from,
                   stored_patterns, current_pattern>>

\* energy(pattern)
EnergyCall(pattern) ==
    /\ call = Idle
    /\ call' = [op |-> "energy", pattern |-> pattern, outcome |-> "ok",
                value |-> Energy(weights, pattern)]
    /\ UNCHANGED <<size, weights, patterns_ref, own_list, built_from,
                   stored_patterns, current_pattern>>

\* the caller is done with what the call returned
Return ==
    /\ call # Idle
    /\ call' = Idle
    /\ UNCHANGED <<size, weights, patterns_ref, own_list, built_from,
                   stored_patterns, current_pattern>>

TrainWellFormed == \E P \in WellFormedLists(size) : Train(P)

RecallWellFormed ==
    \E pattern \in BinaryPatterns(size) :
        \E max_iterations \in IterationBounds : Recall(pattern, max_iterations)

EnergyWellFormed == \E pattern \in BinaryPatterns(size) : EnergyCall(pattern)

TrainMismatched == \E P \in MismatchedLists(size) : Train(P)

RecallMismatched ==
    \E pattern \in MismatchedPatterns(size) :
        \E max_iterations \in IterationBounds : Recall(pattern, max_iterations)

NextWellFormed ==
    \/ TrainWellFormed
    \/ RecallWellFormed
    \/ EnergyWellFormed
    \/ Return

Next ==
    \/ TrainWellFormed
    \/ RecallWellFormed
    \/ EnergyWellFormed
    \/ TrainMismatched
    \/ RecallMismatched
    \/ Return

\* every call, patterns of the wrong length included
Spec == Init /\ [][Next]_vars

\* the calls that keep to the engine's size
SpecWellFormed == Init /\ [][NextWellFormed]_vars

----------------------------------------------------------------------------
\* One engine of NoiseSize neurons, trained once on one pattern and probed
\* with that pattern with one cell toggled

InitNoise == Construct(NoiseSize) /\ NoGUI

NoiseTrain ==
    /\ patterns_ref = "init"
    /\ \E p \in BinaryPatterns(NoiseSize) : Train(<<p>>)

NoiseRecall ==
    /\ Len(patterns) = 1
    /\ \E probe \in OneBitFlips(patterns[1]) : Recall(probe, DefaultMaxIterations)

NextNoise ==
    \/ NoiseTrain
    \/ NoiseRecall
    \/ Return

SpecNoise == InitNoise /\ [][NextNoise]_vars

----------------------------------------------------------------------------
\* HopfieldGUI: the grid, the pattern buffer and the handlers that change
\* them.  The grid has GridCells cells (64 in the source).

\* HopfieldGUI.__init__
InitGUI ==
    /\ Construct(GridCells)
    /\ current_pattern = ZeroPattern(GridCells)
    /\ stored_patterns = <<>>

\* self.network.train(self.stored_patterns): the engine keeps the reference
\* to the buffer itself
TrainOnBuffer(buffer) ==
    LET r == TrainResult(size, buffer)
    IN  /\ weights' = [num |-> r.num, den |-> r.den]
        /\ patterns_ref' = "stored_patterns"
        /\ own_list' = <<>>
        /\ built_from' = buffer

\* the sequence without its element at index
DeleteAt(list, index) ==
    [k \in 1..(Len(list) - 1) |-> IF k < index THEN list[k] ELSE list[k + 1]]

on_cell_click(index) ==
    /\ current_pattern' = Flip(current_pattern, index)
    /\ UNCHANGED <<size, weights, patterns_ref, own_list, built_from,
                   stored_patterns, call>>

clear_grid ==
    /\ current_pattern' = ZeroPattern(GridCells)
    /\ UNCHANGED <<size, weights, patterns_ref, own_list, built_from,
                   stored_patterns, call>>

load_pattern ==
    /\ current_pattern # ZeroPattern(GridCells)
    /\ Len(stored_patterns) < MaxStored
    /\ stored_patterns' = Append(stored_patterns, current_pattern)
    /\ UNCHANGED <<size, weights, patterns_ref, own_list, built_from,
                   current_pattern, call>>

train_network ==
    /\ stored_patterns # <<>>
    /\ TrainOnBuffer(stored_patterns)
    /\ UNCHANGED <<size, stored_patterns, current_pattern, call>>

recall_pattern ==
    /\ Len(stored_patterns) # 0
    /\ current_pattern' =
           RecallResult(weights, size, current_pattern,
                        DefaultMaxIterations).pattern
    /\ UNCHANGED <<size, weights, patterns_ref, own_list, built_from,
                   stored_patterns, call>>

load_selected_pattern(index) ==
    /\ current_pattern' = stored_patterns[index]
    /\ UNCHANGED <<size, weights, patterns_ref, own_list, built_from,
                   stored_patterns, call>>

delete_selected_pattern(index) ==
    LET remaining == DeleteAt(stored_patterns, index)
    IN  /\ stored_patterns' = remaining
        /\ IF remaining # <<>>
           THEN TrainOnBuffer(remaining)
           ELSE UNCHANGED <<weights, patterns_ref, own_list, built_from>>
        /\ UNCHANGED <<size, current_pattern, call>>

NextGUI ==
    \/ \E index \in 1..GridCells : on_cell_click(index)
    \/ clear_grid
    \/ load_pattern
    \/ train_network
    \/ recall_pattern
    \/ \E index \in 1..Len(stored_patterns) : load_selected_pattern(index)
    \/ \E index \in 1..Len(stored_patterns) : delete_selected_pattern(index)

SpecGUI == InitGUI /\ [][NextGUI]_vars

----------------------------------------------------------------------------
\* Properties

RecallReturned == call.op = "recall" /\ call.outcome = "ok"

\* C1: a train call with a pattern of the wrong length, or a recall call
\* with a probe of the wrong length, ends in an error and leaves every
\* entry of the weight matrix as it was before the call.
C1_DimensionGuard ==
    (call.op \in {"train", "recall"} /\ call.mismatched)
        => (call.outcome # "ok" /\ ~call.mutated)

\* C2: the engine's stored-pattern list is its own copy of the list train
\* was given: it always equals the list the weights were last built from,
\* whatever the caller does to its buffer afterwards.
C2_OwnedCopy == patterns = built_from

\* recall(p) with max_iterations >= 1 on an engine trained on [p]
C3_Case ==
    /\ RecallReturned
    /\ patterns_ref = "argument"
    /\ patterns = <<call.pattern>>
    /\ call.max_iterations >= 1

C3_Recalled ==
    /\ call.result.pattern = call.pattern
    /\ Len(call.result.history) >= 2
    /\ call.result.history[2] = call.pattern

\* C3 as stated: for every size N >= 1 and every pattern p, after train([p])
\* recall(p) with max_iterations >= 1 returns p, and the snapshot after the
\* first sweep is already p.
C3_PerfectRecall == C3_Case => C3_Recalled

\* C3 as amended: the same for every size N >= 2, and for N = 1 with p = [1].
C3_PerfectRecallFromTwoNeurons ==
    (C3_Case /\ (size >= 2 \/ call.pattern = <<1>>)) => C3_Recalled

C3_Witness ==
    /\ C3_Case
    /\ size = MaxSize
    /\ call.pattern \notin {ZeroPattern(size), OnesPattern(size)}
    /\ call.result.history = <<call.pattern, call.pattern>>

\* recall with the default max_iterations on an engine never trained
C4_Case ==
    /\ RecallReturned
    /\ patterns_ref = "init"
    /\ call.max_iterations = DefaultMaxIterations

\* C4 as stated: on a never-trained engine recall with the default
\* max_iterations returns all ones after exactly one sweep: the history is
\* [probe, all-ones].
C4_UntrainedOneSweep ==
    C4_Case =>
        /\ call.result.pattern = OnesPattern(size)
        /\ call.result.sweeps = 1
        /\ call.result.history = <<call.pattern, OnesPattern(size)>>

\* C4 as amended: it returns all ones; the history is [probe, all-ones]
\* after one sweep when the probe is all ones, and [probe, all-ones,
\* all-ones] after two sweeps for every other probe.
C4_UntrainedAllOnes ==
    C4_Case =>
        /\ call.result.pattern = OnesPattern(size)
        /\ IF call.pattern = OnesPattern(size)
           THEN /\ call.result.sweeps = 1
                /\ call.result.history = <<call.pattern, OnesPattern(size)>>
           ELSE /\ call.result.sweeps = 2
                /\ call.result.history =
                       <<call.pattern, OnesPattern(size), OnesPattern(size)>>

C4_Witness ==
    /\ C4_Case
    /\ size = MaxSize
    /\ call.pattern = ZeroPattern(size)
    /\ Len(call.result.history) = 3

\* C5: recall with max_iterations < 0 is rejected with an error; it does not
\* return a pattern and a history.
C5_NegativeBoundRejected ==
    (call.op = "recall" /\ call.max_iterations < 0) => call.outcome # "ok"

\* C6: a recall with max_iterations >= 0 returns a history one longer than
\* the number of sweeps performed, of length between 1 and
\* max_iterations + 1; with max_iterations = 0 no sweep is performed and the
\* probe comes back with a history of length 1.
C6_HistoryLength ==
    (RecallReturned /\ call.max_iterations >= 0) =>
        /\ Len(call.result.history) = call.result.sweeps + 1
        /\ 1 <= Len(call.result.history)
        /\ Len(call.result.history) <= call.max_iterations + 1
        /\ call.max_iterations = 0 =>
               /\ call.result.sweeps = 0
               /\ call.result.pattern = call.pattern
               /\ call.result.history = <<call.pattern>>

\* the bound cut the recall short: the last sweep still changed the state
C6_Witness ==
    /\ RecallReturned
    /\ call.max_iterations = 1
    /\ Len(call.result.history) = 2
    /\ call.result.history[2] # call.result.history[1]
    /\ call.result.pattern = call.result.history[2]

\* C7: after any sequence of train, recall and energy calls with patterns of
\* the engine's length, the weight matrix is symmetric with a zero diagonal.
C7_SymmetricZeroDiagonal ==
    \A i \in 1..size : \A j \in 1..size :
        /\ weights.num[i][j] = weights.num[j][i]
        /\ weights.num[i][i] = 0

C7_Witness ==
    /\ call.op = "train"
    /\ Len(patterns) >= 2
    /\ size = MaxSize
    /\ \E i \in 1..size : \E j \in 1..size : weights.num[i][j] # 0

\* C8: an engine of 8 neurons trained on one pattern p returns p from every
\* probe that differs from p in one cell, after at most 3 sweeps (a history
\* of at most 4), the last of which changed nothing.
C8_NoiseTolerance ==
    (call.op = "recall" /\ Len(patterns) = 1
        /\ call.pattern \in OneBitFlips(patterns[1])) =>
        /\ call.outcome = "ok"
        /\ call.result.pattern = patterns[1]
        /\ call.result.sweeps <= 3
        /\ Len(call.result.history) <= 4
        /\ Len(call.result.history) >= 2
        /\ call.result.history[Len(call.result.history)] =
               call.result.history[Len(call.result.history) - 1]

C8_Witness ==
    /\ RecallReturned
    /\ size = NoiseSize
    /\ Len(patterns) = 1
    /\ call.pattern \in OneBitFlips(patterns[1])
    /\ call.result.pattern = patterns[1]
    /\ call.result.sweeps = 2

\* energy(q) on an engine of two or more neurons trained on [p], q one
\* toggled cell away from p
C9_Case ==
    /\ call.op = "energy"
    /\ size >= 2
    /\ patterns_ref = "argument"
    /\ Len(patterns) = 1
    /\ call.pattern \in OneBitFlips(patterns[1])

\* C9: on an engine of size N >= 2 trained on [p], energy(p) <= energy(q)
\* for every q that differs from p in one cell.
C9_EnergySign ==
    C9_Case => EnergyLeq(Energy(weights, patterns[1]), call.value)

C9_Witness ==
    /\ C9_Case
    /\ size = MaxSize
    /\ EnergyLess(Energy(weights, patterns[1]), call.value)

====
